---- MODULE Spec2Model ----
(***************************************************************************)
(* Model of the invasive-species monitoring dashboard (src/js/main.js):    *)
(* the session store (localStorage), the permission policy, the in-memory  *)
(* report repository of InvasiveSpeciesAPI and the verification modal      *)
(* workflow.  Time is the millisecond clock of Date; asynchronous handlers *)
(* are split at their suspension points.                                   *)
(***************************************************************************)
EXTENDS Integers, Sequences, FiniteSets, TLC

VARIABLES
    clock,          \* new Date().getTime()
    currentUser,    \* global currentUser (user record or null)
    storage,        \* localStorage: present session keys -> stored string
    activityLog,    \* localStorage 'ipsms_user_activity_log' (parsed)
    storageWritable,\* whether localStorage.setItem succeeds in this page
    reports,        \* invasiveSpeciesAPI.mockData.reports
    modals,         \* #verification-modal elements of document.body, in order
    task,           \* continuation waiting in the microtask queue
    pendingLogin,   \* handleLogin suspended in authenticateUser
    pendingCreates, \* createReport POST requests suspended in handleMockRequest
    timers,         \* setTimeout callbacks scheduled and not yet run
    lastActivity,   \* lastActivity of each setupSessionRefresh closure
    mainVisible,    \* nav/main display (showMainContent / hideMainContent)
    loginVisible,   \* #login-modal shown
    currentSection, \* global currentSection
    errorMessage,   \* #error-text while #error-message is shown
    successMessage, \* #success-text while #success-message is shown
    tableShown,     \* rows of #reports-table-body (reports-management table)
    alertsShown     \* entries of #priority-alerts (dashboard)

vars == <<clock, currentUser, storage, activityLog, storageWritable, reports,
          modals, task, pendingLogin, pendingCreates, timers,
          lastActivity, mainVisible, loginVisible, currentSection,
          errorMessage, successMessage, tableShown, alertsShown>>

(***************************************************************************)
(* Bounds of the model.                                                    *)
(***************************************************************************)
MaxTicks == 3          \* clock advances at most this many half days
MaxModals == 2         \* verification modals in the document
MaxReports == 4        \* reports in the repository (3 are seeded)
MaxLogins == 2         \* entries in the activity log
MaxVerified == 1       \* reports whose verification was rewritten since page load

(***************************************************************************)
(* Program constants.                                                      *)
(***************************************************************************)
SessionDuration == 86400000
InactivityLimit == 1800000
LogCap == 100

Undefined == "<undefined>"
null == [isNull |-> TRUE]
Hidden == "<hidden>"
Origin == <<"origin">>

(***************************************************************************)
(* Number.prototype.toString and parseInt, on decimal digit sequences.     *)
(***************************************************************************)
RECURSIVE toString(_)
toString(n) ==
    IF n < 10 THEN <<n>> ELSE Append(toString(n \div 10), n % 10)

NaN == -1

RECURSIVE parseDigits(_, _)
parseDigits(s, acc) ==
    IF s = <<>> THEN acc
    ELSE IF Head(s) \in 0..9 THEN parseDigits(Tail(s), acc * 10 + Head(s))
    ELSE acc

parseInt(s) ==
    IF s = <<>> \/ Head(s) \notin 0..9 THEN NaN ELSE parseDigits(s, 0)

\* a < b and a >= b of JavaScript numbers: false when an operand is NaN
less(a, b) == a # NaN /\ b # NaN /\ a < b
atLeast(a, b) == a # NaN /\ b # NaN /\ a >= b

(***************************************************************************)
(* User objects and their JSON form.  A user is a record over UserFields;  *)
(* a property the object does not have reads as Undefined.  JSON.stringify *)
(* writes the defined properties as key/value pairs in property order and  *)
(* JSON.parse rebuilds the object from the pairs.                          *)
(***************************************************************************)
UserFields == <<"id", "username", "email", "full_name", "user_type">>

RECURSIVE stringifyFields(_, _)
stringifyFields(user, fields) ==
    IF fields = <<>> THEN <<>>
    ELSE IF user[Head(fields)] = Undefined
         THEN stringifyFields(user, Tail(fields))
         ELSE <<<<Head(fields), user[Head(fields)]>>>>
                  \o stringifyFields(user, Tail(fields))

JSONstringify(user) == stringifyFields(user, UserFields)

lookupPair(json, key) ==
    IF \E i \in 1..Len(json) : json[i][1] = key
    THEN json[CHOOSE i \in 1..Len(json) :
                 /\ json[i][1] = key
                 /\ \A j \in (i+1)..Len(json) : json[j][1] # key][2]
    ELSE Undefined

\* faulty variant: the email property is lost on the way back
JSONparse_noEmail(json) ==
    [f \in {UserFields[i] : i \in 1..Len(UserFields)} |->
        IF f = "email" THEN Undefined ELSE lookupPair(json, f)]

JSONparse(json) ==
    [f \in {UserFields[i] : i \in 1..Len(UserFields)} |-> lookupPair(json, f)]

\* JSON.parse throws on a text that is not a sequence of key/value pairs
isJSON(text) == \A i \in 1..Len(text) : Len(text[i]) = 2

NotJSON == <<<<"{">>>>

\* a character that is not a decimal digit, and a text that parseInt cannot read
Letter == 10
NotNumeric == <<Letter, Letter>>

(***************************************************************************)
(* The users of the model.  TestUser is the seeded mock user; the others   *)
(* are identities a persisted session may hold.                            *)
(***************************************************************************)
TestUser ==
    [id |-> "1", username |-> "testuser", email |-> "test@example.com",
     full_name |-> "Test User", user_type |-> "Researcher"]

CitizenUser ==
    [id |-> "2", username |-> "carol", email |-> "carol@example.com",
     full_name |-> "Carol Citizen", user_type |-> "Citizen"]

AdminUser ==
    [id |-> "3", username |-> "admin", email |-> "admin@example.com",
     full_name |-> "Ada Admin", user_type |-> "Administrator"]

OfficialUser ==
    [id |-> Undefined, username |-> "gov", email |-> "gov@example.com",
     full_name |-> "", user_type |-> "Government Official"]

UntypedUser ==
    [id |-> "5", username |-> "guest", email |-> Undefined,
     full_name |-> "Guest", user_type |-> Undefined]

StoredUsers == {CitizenUser, OfficialUser, UntypedUser}

UserTypes ==
    {"Researcher", "Administrator", "Government Official", "Citizen",
     "Land Manager", "researcher", "", Undefined}

UserValues ==
    {null} \cup
    [id : {"1"}, username : {"u"}, email : {"e@example.com"},
     full_name : {"N", ""}, user_type : UserTypes]

(***************************************************************************)
(* Permission policy.                                                      *)
(***************************************************************************)
includes(seq, x) == \E i \in 1..Len(seq) : seq[i] = x

allowedTypes == <<"Researcher", "Administrator", "Government Official">>

\* faulty variant: every logged-in user may verify
canVerifyReports_loggedIn(user) == user # null

canVerifyReports(user) ==
    IF user = null THEN FALSE ELSE includes(allowedTypes, user.user_type)

isAdminUser(user) ==
    user # null /\ user.user_type = "Administrator"

(***************************************************************************)
(* Report repository: InvasiveSpeciesAPI with useMockData = true.          *)
(***************************************************************************)
speciesNames ==
    [i \in {"1", "2", "3"} |->
        CASE i = "1" -> "Lantana camara"
          [] i = "2" -> "Pueraria montana"
          [] i = "3" -> "Tamarix ramosissima"]

\* The texts a search reads (location_description, reporter_name, notes) are
\* sequences of characters, shortened to one word of the seeded text.
initializeMockData ==
    << [id |-> "1", species_id |-> "1", threat_assessment |-> "High Risk",
        verification_status |-> "Verified",
        verified_by |-> "Dr. Alex Johnson",
        verification_date |-> "2024-01-16T08:30:00Z",
        verification_notes |-> "Confirmed identification through field analysis and NASA satellite imagery.",
        report_date |-> "2024-01-15T10:30:00Z",
        location_description |-> <<"N", "e", "a", "r">>,
        reporter_name |-> <<"J", "a", "n", "e">>,
        notes |-> <<"L", "a", "r", "g", "e">>],
       [id |-> "2", species_id |-> "2",
        threat_assessment |-> "Immediate Action Required",
        verification_status |-> "Pending",
        verified_by |-> Undefined,
        verification_date |-> Undefined,
        verification_notes |-> Undefined,
        report_date |-> "2024-01-20T14:15:00Z",
        location_description |-> <<"R", "o", "a", "d">>,
        reporter_name |-> <<"B", "o", "b">>,
        notes |-> <<"C", "o", "v", "e", "r">>],
       [id |-> "3", species_id |-> "3", threat_assessment |-> "Moderate Risk",
        verification_status |-> "Needs Review",
        verified_by |-> "Dr. Maria Garcia",
        verification_date |-> "2024-01-18T12:00:00Z",
        verification_notes |-> "Species identification uncertain. Recommend expert field verification.",
        report_date |-> "2024-01-17T09:45:00Z",
        location_description |-> <<"P", "a", "r", "k">>,
        reporter_name |-> <<"S", "a", "r", "a", "h">>,
        notes |-> <<"F", "i", "r", "s", "t">>] >>

\* new Date().toISOString() at the model's clock
toISOString(now) == "T+" \o ToString(now)

\* Array.prototype.find on the report array: index of the first match, 0 if none
findReport(reps, id) ==
    IF \E i \in 1..Len(reps) : reps[i].id = id
    THEN CHOOSE i \in 1..Len(reps) :
            /\ reps[i].id = id
            /\ \A j \in 1..(i-1) : reps[j].id # id
    ELSE 0

getReportById(reps, id) ==
    LET i == findReport(reps, id) IN
    IF i # 0
    THEN [ok |-> TRUE,
          data |-> [f \in DOMAIN reps[i] \cup {"species_name"} |->
                      IF f = "species_name"
                      THEN IF reps[i].species_id \in DOMAIN speciesNames
                           THEN speciesNames[reps[i].species_id]
                           ELSE "Unknown Species"
                      ELSE reps[i][f]]]
    ELSE [ok |-> FALSE, error |-> "Report not found"]

\* faulty variant: the notes are left out of verificationData
assignVerification_noNotes(report, verifierName, status, notes, now) ==
    [report EXCEPT !.verification_status = status,
                   !.verified_by = verifierName,
                   !.verification_date = toISOString(now)]

\* faulty variant: the write also stamps report_date
assignVerification_stampsReport(report, verifierName, status, notes, now) ==
    [report EXCEPT !.verification_status = status,
                   !.verified_by = verifierName,
                   !.verification_date = toISOString(now),
                   !.verification_notes = notes,
                   !.report_date = toISOString(now)]

\* Object.assign(report, verificationData)
assignVerification(report, verifierName, status, notes, now) ==
    [report EXCEPT !.verification_status = status,
                   !.verified_by = verifierName,
                   !.verification_date = toISOString(now),
                   !.verification_notes = notes]

\* faulty variant: an id that no report has falls back to the last report
verifyReport_fallback(reps, id, verifierName, status, notes, now) ==
    LET i == IF findReport(reps, id) # 0 THEN findReport(reps, id) ELSE Len(reps) IN
    [ok |-> TRUE,
     reports |-> [reps EXCEPT ![i] =
                     assignVerification(reps[i], verifierName, status, notes, now)]]

verifyReport(reps, id, verifierName, status, notes, now) ==
    LET i == findReport(reps, id) IN
    IF i # 0
    THEN [ok |-> TRUE,
          reports |-> [reps EXCEPT ![i] =
                          assignVerification(reps[i], verifierName, status, notes, now)]]
    ELSE [ok |-> FALSE, reports |-> reps, error |-> "Report not found"]

MissingId == "does-not-exist"
reportIds(reps) == {reps[i].id : i \in 1..Len(reps)}

(***************************************************************************)
(* localStorage: getItem / setItem / removeItem on the session keys.       *)
(***************************************************************************)
SessionKeys ==
    {"ipsms_user", "ipsms_session_expiry", "ipsms_login_time", "ipsms_environment"}

hasItem(st, k) == k \in DOMAIN st

setItem(st, k, v) == [x \in DOMAIN st \cup {k} |-> IF x = k THEN v ELSE st[x]]

removeItem(st, k) == [x \in DOMAIN st \ {k} |-> st[x]]

(***************************************************************************)
(* Activity log (trackUserLogin / trackUserLogout).                        *)
(***************************************************************************)
NoTime == -1

sameUser(entry, user) ==
    entry.userId = user.id \/ entry.username = user.username

closeEntry(entry, t) ==
    [entry EXCEPT !.isActive = FALSE, !.logoutTime = t]

\* faulty variant: the first n entries are kept
slice_oldest(seq, n) ==
    IF Len(seq) > n THEN SubSeq(seq, 1, n) ELSE seq

slice(seq, n) ==
    IF Len(seq) > n THEN SubSeq(seq, Len(seq) - n + 1, Len(seq)) ELSE seq

trackUserLogin(log, user, loginTime) ==
    LET loginEntry ==
            [userId |-> IF user.id # Undefined THEN user.id ELSE user.username,
             username |-> user.username,
             loginTime |-> loginTime,
             logoutTime |-> NoTime,
             isActive |-> TRUE]
        marked ==
            [i \in 1..Len(log) |->
                IF sameUser(log[i], user) /\ log[i].isActive
                THEN closeEntry(log[i], loginTime) ELSE log[i]]
    IN slice(Append(marked, loginEntry), LogCap)

trackUserLogout(log, user, logoutTime) ==
    [i \in 1..Len(log) |->
        IF sameUser(log[i], user) /\ log[i].isActive
        THEN closeEntry(log[i], logoutTime) ELSE log[i]]

\* the entries of the log written at or after time t
loggedSince(log, t) == {i \in 1..Len(log) : log[i].loginTime >= t}

\* the log after n <= LogCap logins of user (trackUserLogin n times), one per
\* millisecond, the last of them two milliseconds before time 0: each login
\* has closed the entry of the login before it
loginHistory(user, n) ==
    [i \in 1..n |->
        [userId |-> IF user.id # Undefined THEN user.id ELSE user.username,
         username |-> user.username,
         loginTime |-> 0 - 2 - LogCap + i,
         logoutTime |-> IF i < n THEN 0 - 1 - LogCap + i ELSE NoTime,
         isActive |-> (i = n)]]

(***************************************************************************)
(* Session store.  Each operator returns the values the function leaves    *)
(* behind: its result, the storage and the activity log.                   *)
(***************************************************************************)
writeSession(st, user, now) ==
    LET s1 == setItem(st, "ipsms_user", JSONstringify(user))
        s2 == setItem(s1, "ipsms_session_expiry", toString(now + SessionDuration))
        s3 == setItem(s2, "ipsms_login_time", toString(now))
    IN setItem(s3, "ipsms_environment", Origin)

\* faulty variant: the session is written without the write test
saveUserSession_untested(st, log, writable, user, now) ==
    [ret |-> TRUE, storage |-> writeSession(st, user, now),
     log |-> trackUserLogin(log, user, now)]

saveUserSession(st, log, writable, user, now) ==
    IF ~writable
    THEN [ret |-> FALSE, storage |-> st, log |-> log]
    ELSE LET st2 == writeSession(st, user, now)
             log2 == trackUserLogin(log, user, now)
             verified ==
                 /\ hasItem(st2, "ipsms_user")
                 /\ hasItem(st2, "ipsms_session_expiry")
                 /\ JSONparse(st2["ipsms_user"]).full_name = user.full_name
                 /\ parseInt(st2["ipsms_session_expiry"]) = now + SessionDuration
         IN [ret |-> verified, storage |-> st2, log |-> log2]

removeSession(st) ==
    removeItem(removeItem(removeItem(st, "ipsms_user"),
                          "ipsms_session_expiry"), "ipsms_login_time")

clearUserSession(st, log, writable, user, now) ==
    [storage |-> removeSession(st),
     log |-> IF user # null /\ writable
             THEN trackUserLogout(log, user, now) ELSE log]

refreshUserSession(st, writable, user, now) ==
    IF user # null /\ writable
    THEN setItem(st, "ipsms_session_expiry", toString(now + SessionDuration))
    ELSE st

\* the outcome of checkExistingLogin: result, user restored, storage, log.
\* The console.log before the test parses the user value whenever there is
\* one, so a value that is not JSON ends in the catch block
checkExistingLogin(st, log, writable, user, now) ==
    IF hasItem(st, "ipsms_user") /\ ~isJSON(st["ipsms_user"])
    THEN LET c == clearUserSession(st, log, writable, user, now)
         IN [ret |-> FALSE, user |-> user, storage |-> c.storage, log |-> c.log]
    ELSE IF hasItem(st, "ipsms_user") /\ hasItem(st, "ipsms_session_expiry")
    THEN IF less(now, parseInt(st["ipsms_session_expiry"]))
         THEN [ret |-> TRUE, user |-> JSONparse(st["ipsms_user"]),
               storage |-> st, log |-> log]
         ELSE LET c == clearUserSession(st, log, writable, user, now)
              IN [ret |-> FALSE, user |-> user, storage |-> c.storage, log |-> c.log]
    ELSE [ret |-> FALSE, user |-> user, storage |-> st, log |-> log]

(***************************************************************************)
(* Page load.                                                              *)
(***************************************************************************)
Idle == [kind |-> "idle"]
NoLogin == [pending |-> FALSE]
EmptyStorage == [k \in {} |-> <<>>]

timer(cb, user, src) == [cb |-> cb, user |-> user, src |-> src]

\* What the two message toasts read once a handler has run.  A toast hides
\* itself 5 seconds after showError / showSuccess; events are taken to be
\* further apart than that, so a handler starts with both toasts hidden.
show(error, success) ==
    /\ errorMessage' = error
    /\ successMessage' = success

\* DOMContentLoaded schedules checkExistingLogin; the window load handler
\* schedules a second initialisation (window.ipsmsInitialized is not yet set)
startupTimers ==
    {timer("checkExistingLogin", null, "DOMContentLoaded"),
     timer("initialize", null, "load")}

\* what a fresh document holds once the DOMContentLoaded handler has run
PageLoaded(now) ==
    /\ currentUser' = null
    /\ reports' = initializeMockData
    /\ modals' = <<>>
    /\ task' = Idle
    /\ pendingLogin' = NoLogin
    /\ pendingCreates' = <<>>
    /\ timers' = startupTimers
    /\ lastActivity' = <<now>>
    /\ mainVisible' = FALSE
    /\ loginVisible' = FALSE
    /\ currentSection' = "dashboard"
    /\ errorMessage' = Hidden
    /\ successMessage' = Hidden
    /\ tableShown' = <<>>
    /\ alertsShown' = <<>>

Init ==
    /\ clock = 0
    /\ storageWritable \in BOOLEAN
    /\ \/ /\ storage = EmptyStorage
          /\ activityLog = <<>>
       \/ \E u \in StoredUsers :
          /\ storage = writeSession(EmptyStorage, u, 0)
          /\ activityLog = trackUserLogin(<<>>, u, 0)
    /\ currentUser = null
    /\ reports = initializeMockData
    /\ modals = <<>>
    /\ task = Idle
    /\ pendingLogin = NoLogin
    /\ pendingCreates = <<>>
    /\ timers = startupTimers
    /\ lastActivity = <<0>>
    /\ mainVisible = FALSE
    /\ loginVisible = FALSE
    /\ currentSection = "dashboard"
    /\ errorMessage = Hidden
    /\ successMessage = Hidden
    /\ tableShown = <<>>
    /\ alertsShown = <<>>

\* the user reloads the page: memory is lost, localStorage is kept
Reload ==
    /\ task = Idle
    /\ PageLoaded(clock)
    /\ storageWritable' \in BOOLEAN
    /\ UNCHANGED <<clock, storage, activityLog>>

\* the timers of the start-up sequence have all run
startupDone == \A t \in timers : t.src = "report"

\* the condition under which the setInterval callback of setupSessionRefresh
\* logs the user out
sessionCheckDue ==
    /\ Len(lastActivity) > 0
    /\ currentUser # null
    /\ hasItem(storage, "ipsms_session_expiry")
    /\ atLeast(clock, parseInt(storage["ipsms_session_expiry"]))

\* the clock moves in steps of half a session lifetime: longer than any
\* timeout, request delay or interval of the page, so none is pending or due
\* across a step
HalfDay == SessionDuration \div 2

Tick ==
    /\ task = Idle
    /\ timers = {}
    /\ ~sessionCheckDue
    /\ ~pendingLogin.pending
    /\ pendingCreates = <<>>
    /\ clock + HalfDay <= MaxTicks * HalfDay
    /\ clock' = clock + HalfDay
    /\ show(Hidden, Hidden)
    /\ UNCHANGED <<currentUser, storage, activityLog, storageWritable, reports,
                   modals, task, pendingLogin, pendingCreates, timers,
                   lastActivity, mainVisible, loginVisible, currentSection,
                   tableShown, alertsShown>>

(***************************************************************************)
(* Timer callbacks of the start-up sequence.                               *)
(***************************************************************************)
\* the part of checkExistingLogin that changes state, called from timer t
RunCheckExistingLogin(t) ==
    LET r == checkExistingLogin(storage, activityLog, storageWritable,
                                currentUser, clock)
        next == IF r.ret
                THEN timer("restoreSession", r.user, t.src)
                ELSE timer("showLoginScreen", null, t.src)
    IN /\ currentUser' = r.user
       /\ storage' = r.storage
       /\ activityLog' = r.log
       /\ timers' = (timers \ {t}) \cup {next}

CheckExistingLoginTimer ==
    \E t \in timers :
        /\ task = Idle
        /\ t.cb = "checkExistingLogin"
        /\ RunCheckExistingLogin(t)
        /\ UNCHANGED <<clock, storageWritable, reports, modals, task,
                       pendingLogin, pendingCreates, lastActivity, mainVisible,
                       loginVisible, currentSection, errorMessage,
                       successMessage, tableShown, alertsShown>>

\* load handler's timeout: initializeApp, setupEventListeners, checkExistingLogin
InitializeTimer ==
    \E t \in timers :
        /\ task = Idle
        /\ t.cb = "initialize"
        /\ mainVisible' = FALSE
        /\ lastActivity' = Append(lastActivity, clock)
        /\ RunCheckExistingLogin(t)
        /\ UNCHANGED <<clock, storageWritable, reports, modals, task,
                       pendingLogin, pendingCreates, loginVisible,
                       currentSection, errorMessage, successMessage,
                       tableShown, alertsShown>>

\* showSection(sectionName) for a section that needs no further permission
showSection(user, sectionName) ==
    IF user = null
    THEN [section |-> currentSection, error |-> "Please log in to access this feature.",
          main |-> FALSE, login |-> TRUE, denied |-> TRUE]
    ELSE [section |-> sectionName, error |-> errorMessage,
          main |-> mainVisible, login |-> loginVisible, denied |-> FALSE]

RestoreSessionTimer ==
    \E t \in timers :
        /\ task = Idle
        /\ t.cb = "restoreSession"
        /\ timers' = timers \ {t}
        /\ LET sec == showSection(currentUser, "dashboard") IN
           /\ mainVisible' = IF sec.denied THEN FALSE ELSE TRUE
           /\ loginVisible' = sec.login
           /\ currentSection' = sec.section
           /\ errorMessage' = sec.error
        /\ successMessage' = "Welcome back"
        /\ UNCHANGED <<clock, currentUser, storage, activityLog,
                       storageWritable, reports, modals, task, pendingLogin,
                       pendingCreates, lastActivity, tableShown, alertsShown>>

ShowLoginScreenTimer ==
    \E t \in timers :
        /\ task = Idle
        /\ t.cb = "showLoginScreen"
        /\ timers' = timers \ {t}
        /\ mainVisible' = FALSE
        /\ loginVisible' = TRUE
        /\ UNCHANGED <<clock, currentUser, storage, activityLog,
                       storageWritable, reports, modals, task, pendingLogin,
                       pendingCreates, lastActivity, currentSection,
                       errorMessage, successMessage, tableShown, alertsShown>>

(***************************************************************************)
(* Login, logout, activity tracking and the periodic expiry check.         *)
(***************************************************************************)
mockUsers == <<TestUser>>

LoginEmails == {"test@example.com", "new@example.com"}
LoginNames == {"New Person"}
LoginTypes == {"Citizen", "Administrator"}

\* authenticateUser: getUsers ignores its search parameter
authenticateUser(users, email, name, userType) ==
    IF Len(users) > 0
    THEN users[1]
    ELSE [f \in {UserFields[i] : i \in 1..Len(UserFields)} |-> Undefined]

\* handleLogin up to the suspension inside authenticateUser
LoginStart(email, name, userType) ==
    /\ task = Idle
    /\ loginVisible
    /\ ~pendingLogin.pending
    /\ Cardinality(loggedSince(activityLog, 0)) < MaxLogins
    /\ pendingLogin' = [pending |-> TRUE,
                        user |-> authenticateUser(mockUsers, email, name, userType)]
    /\ show(Hidden, Hidden)
    /\ UNCHANGED <<clock, currentUser, storage, activityLog, storageWritable,
                   reports, modals, task, pendingCreates, timers, lastActivity,
                   mainVisible, loginVisible, currentSection, tableShown, alertsShown>>

\* handleLogin after authenticateUser has returned
LoginComplete ==
    /\ task = Idle
    /\ pendingLogin.pending
    /\ LET user == pendingLogin.user
           saved == saveUserSession(storage, activityLog, storageWritable,
                                    user, clock)
       IN /\ currentUser' = user
          /\ storage' = saved.storage
          /\ activityLog' = saved.log
    /\ pendingLogin' = NoLogin
    /\ successMessage' = "Welcome"
    /\ mainVisible' = TRUE
    /\ loginVisible' = FALSE
    /\ currentSection' = "dashboard"
    /\ UNCHANGED <<clock, storageWritable, reports, modals, task,
                   pendingCreates, timers, lastActivity, errorMessage,
                   tableShown, alertsShown>>

\* logout(): currentUser is already null when clearUserSession runs
logout ==
    /\ currentUser' = null
    /\ LET c == clearUserSession(storage, activityLog, storageWritable, null, clock)
       IN /\ storage' = c.storage
          /\ activityLog' = c.log
    /\ mainVisible' = FALSE
    /\ loginVisible' = TRUE
    /\ successMessage' = "Logged out successfully"

Logout ==
    /\ task = Idle
    /\ currentUser # null
    /\ logout
    /\ errorMessage' = Hidden
    /\ UNCHANGED <<clock, storageWritable, reports, modals, task, pendingLogin,
                   pendingCreates, timers, lastActivity, currentSection,
                   tableShown, alertsShown>>

\* the setInterval callback of setupSessionRefresh
SessionCheck ==
    /\ task = Idle
    /\ sessionCheckDue
    /\ errorMessage' = "Your session has expired. Please log in again."
    /\ logout
    /\ UNCHANGED <<clock, storageWritable, reports, modals, task, pendingLogin,
                   pendingCreates, timers, lastActivity, currentSection,
                   tableShown, alertsShown>>

\* the activity listeners of setupSessionRefresh, one per closure, on one
\* event at time now: the storage and the lastActivity values they leave
onActivity(st, lasts, writable, user, now) ==
    [storage |->
        IF \E i \in 1..Len(lasts) : now - lasts[i] > InactivityLimit
        THEN refreshUserSession(st, writable, user, now)
        ELSE st,
     lastActivity |-> [i \in 1..Len(lasts) |-> now]]

\* a mousedown / mousemove / keypress / scroll / touchstart / click event
ActivityEvent ==
    /\ task = Idle
    /\ LET ev == onActivity(storage, lastActivity, storageWritable,
                            currentUser, clock)
       IN /\ storage' = ev.storage
          /\ lastActivity' = ev.lastActivity
    /\ show(Hidden, Hidden)
    /\ UNCHANGED <<clock, currentUser, activityLog, storageWritable, reports,
                   modals, task, pendingLogin, pendingCreates, timers,
                   mainVisible, loginVisible, currentSection, tableShown, alertsShown>>

(***************************************************************************)
(* Verification workflow: showVerificationModal, the modal's form,         *)
(* submitVerification and closeVerificationModal.                          *)
(***************************************************************************)
Statuses == {"", "Verified", "Rejected"}
NotesValues == {"", "confirmed in field"}

ReportInputs == {"2", "3", MissingId}
TerminalStatuses == {"Verified", "Rejected"}

SeedDates == {initializeMockData[i].verification_date : i \in 1..Len(initializeMockData)}

\* reports whose verification was written since the page was loaded
rewritten(reps) ==
    {i \in 1..Len(reps) : reps[i].verification_date \notin SeedDates \cup {Undefined}}

toLowerCase(status) ==
    CASE status = "Verified" -> "verified"
      [] status = "Needs Review" -> "needs review"
      [] status = "Rejected" -> "rejected"
      [] OTHER -> status

\* `${currentUser.full_name}` in the modal's template
template(v) == IF v = Undefined THEN "undefined" ELSE v

\* document.getElementById('verification-modal'): the first one in the document
firstModal == modals[1]

PermissionDenied ==
    "You do not have permission to verify reports. Only Researchers, Administrators, and Government Officials can verify reports."

\* where the verification workflow stands: a fetch or a write is in flight, a
\* modal is in the document, or none of these
wf ==
    IF task.kind = "fetch" THEN "LoadingReport"
    ELSE IF task.kind = "submit" THEN "Submitting"
    ELSE IF Len(modals) > 0 THEN "ReviewOpen"
    ELSE "Closed"

\* faulty variant: the permission check is missing
showVerificationModal_unchecked(reportId) ==
    /\ task = Idle
    /\ startupDone
    /\ IF currentUser = null
       THEN /\ show("Please log in to verify reports.", Hidden)
            /\ loginVisible' = TRUE
            /\ task' = task
       ELSE /\ Len(modals) < MaxModals
            /\ show(Hidden, Hidden)
            /\ loginVisible' = loginVisible
            /\ task' = [kind |-> "fetch", reportId |-> reportId,
                        result |-> getReportById(reports, reportId)]
    /\ UNCHANGED <<clock, currentUser, storage, activityLog, storageWritable,
                   reports, modals, pendingLogin, pendingCreates, timers,
                   lastActivity, mainVisible, currentSection, tableShown, alertsShown>>

showVerificationModal(reportId) ==
    /\ task = Idle
    /\ startupDone
    /\ IF currentUser = null
       THEN /\ show("Please log in to verify reports.", Hidden)
            /\ loginVisible' = TRUE
            /\ task' = task
       ELSE IF ~canVerifyReports(currentUser)
       THEN /\ show(PermissionDenied, Hidden)
            /\ loginVisible' = loginVisible
            /\ task' = task
       ELSE /\ Len(modals) < MaxModals
            /\ show(Hidden, Hidden)
            /\ loginVisible' = loginVisible
            /\ task' = [kind |-> "fetch", reportId |-> reportId,
                        result |-> getReportById(reports, reportId)]
    /\ UNCHANGED <<clock, currentUser, storage, activityLog, storageWritable,
                   reports, modals, pendingLogin, pendingCreates, timers,
                   lastActivity, mainVisible, currentSection, tableShown, alertsShown>>

\* the then / catch callback of getReportById in showVerificationModal
ReportFetched ==
    /\ task.kind = "fetch"
    /\ IF task.result.ok
       THEN /\ modals' = Append(modals,
                   [reportId |-> task.reportId,
                    verifier |-> template(currentUser.full_name)])
            /\ errorMessage' = errorMessage
       ELSE /\ modals' = modals
            /\ errorMessage' = "Failed to load report details for verification."
    /\ task' = Idle
    /\ UNCHANGED <<clock, currentUser, storage, activityLog, storageWritable,
                   reports, pendingLogin, pendingCreates, timers, lastActivity,
                   mainVisible, loginVisible, currentSection, successMessage,
                   tableShown, alertsShown>>

closeVerificationModal(ms) == IF Len(ms) > 0 THEN Tail(ms) ELSE ms

CloseVerificationModal ==
    /\ task = Idle
    /\ startupDone
    /\ Len(modals) > 0
    /\ modals' = closeVerificationModal(modals)
    /\ show(Hidden, Hidden)
    /\ UNCHANGED <<clock, currentUser, storage, activityLog, storageWritable,
                   reports, task, pendingLogin, pendingCreates, timers,
                   lastActivity, mainVisible, loginVisible, currentSection,
                   tableShown, alertsShown>>

\* faulty variant: only the decision is validated, not the verifier name
submitVerification_statusOnly(reportId, status, notes) ==
    /\ task = Idle
    /\ startupDone
    /\ Len(modals) > 0
    /\ IF status = ""
       THEN /\ show("Please fill in all required fields.", Hidden)
            /\ reports' = reports
            /\ task' = task
       ELSE LET r == verifyReport(reports, reportId, firstModal.verifier,
                                  status, notes, clock)
            IN /\ Cardinality(rewritten(r.reports)) <= MaxVerified
               /\ show(Hidden, Hidden)
               /\ reports' = r.reports
               /\ task' = [kind |-> "submit", reportId |-> reportId,
                           args |-> [verifierName |-> firstModal.verifier,
                                     status |-> status, notes |-> notes],
                           result |-> [ok |-> r.ok,
                                       error |-> IF r.ok THEN "" ELSE r.error]]
    /\ UNCHANGED <<clock, currentUser, storage, activityLog, storageWritable,
                   modals, pendingLogin, pendingCreates, timers, lastActivity,
                   mainVisible, loginVisible, currentSection, tableShown, alertsShown>>

\* submitVerification(event, reportId) up to `await verifyReport(...)`.  The
\* fields are read with getElementById, so from the first modal: status and
\* notes are what the user has entered there, the verifier name is read-only
submitVerification(reportId, status, notes) ==
    /\ task = Idle
    /\ startupDone
    /\ Len(modals) > 0
    /\ IF status = "" \/ firstModal.verifier = ""
       THEN /\ show("Please fill in all required fields.", Hidden)
            /\ reports' = reports
            /\ task' = task
       ELSE LET r == verifyReport(reports, reportId, firstModal.verifier,
                                  status, notes, clock)
            IN /\ Cardinality(rewritten(r.reports)) <= MaxVerified
               /\ show(Hidden, Hidden)
               /\ reports' = r.reports
               /\ task' = [kind |-> "submit", reportId |-> reportId,
                           args |-> [verifierName |-> firstModal.verifier,
                                     status |-> status, notes |-> notes],
                           result |-> [ok |-> r.ok,
                                       error |-> IF r.ok THEN "" ELSE r.error]]
    /\ UNCHANGED <<clock, currentUser, storage, activityLog, storageWritable,
                   modals, pendingLogin, pendingCreates, timers, lastActivity,
                   mainVisible, loginVisible, currentSection, tableShown, alertsShown>>

\* faulty variant: the catch block closes the modal as well
VerificationSubmitted_closing ==
    /\ task.kind = "submit"
    /\ IF task.result.ok
       THEN /\ successMessage' = "Report " \o task.reportId \o " has been "
                                     \o toLowerCase(task.args.status) \o "!"
            /\ errorMessage' = errorMessage
       ELSE /\ errorMessage' = "Failed to submit verification. Please try again."
            /\ successMessage' = successMessage
    /\ modals' = closeVerificationModal(modals)
    /\ task' = Idle
    /\ UNCHANGED <<clock, currentUser, storage, activityLog, storageWritable,
                   reports, pendingLogin, pendingCreates, timers, lastActivity,
                   mainVisible, loginVisible, currentSection, tableShown, alertsShown>>

\* submitVerification after the await: success path or catch block
VerificationSubmitted ==
    /\ task.kind = "submit"
    /\ IF task.result.ok
       THEN /\ successMessage' = "Report " \o task.reportId \o " has been "
                                     \o toLowerCase(task.args.status) \o "!"
            /\ modals' = closeVerificationModal(modals)
            /\ errorMessage' = errorMessage
       ELSE /\ errorMessage' = "Failed to submit verification. Please try again."
            /\ modals' = modals
            /\ successMessage' = successMessage
    /\ task' = Idle
    /\ UNCHANGED <<clock, currentUser, storage, activityLog, storageWritable,
                   reports, pendingLogin, pendingCreates, timers, lastActivity,
                   mainVisible, loginVisible, currentSection, tableShown, alertsShown>>

(***************************************************************************)
(* Report submission: handleReportSubmission and the mock POST.            *)
(***************************************************************************)
ThreatInputs == {"High Risk"}

\* handleReportSubmission up to the delay of handleMockRequest
ReportSubmitted(threat) ==
    /\ task = Idle
    /\ mainVisible
    /\ Len(reports) + Len(pendingCreates) < MaxReports
    /\ pendingCreates' = Append(pendingCreates,
           [species_id |-> "1", threat_assessment |-> threat,
            verification_status |-> "Pending", verified_by |-> Undefined,
            verification_date |-> Undefined, verification_notes |-> Undefined,
            report_date |-> toISOString(clock),
            location_description |-> <<"l", "a", "k", "e">>,
            reporter_name |-> <<"J", "A", "N">>,
            notes |-> <<>>])
    /\ show(Hidden, Hidden)
    /\ UNCHANGED <<clock, currentUser, storage, activityLog, storageWritable,
                   reports, modals, task, pendingLogin, timers, lastActivity,
                   mainVisible, loginVisible, currentSection, tableShown, alertsShown>>

\* faulty variant: the new id is the number of reports before the push
ReportCreated_countAsId ==
    /\ task = Idle
    /\ Len(pendingCreates) > 0
    /\ LET body == Head(pendingCreates)
           newReport == [f \in DOMAIN body \cup {"id"} |->
                           IF f = "id" THEN ToString(Len(reports)) ELSE body[f]]
       IN reports' = Append(reports, newReport)
    /\ pendingCreates' = Tail(pendingCreates)
    /\ successMessage' = "Report submitted successfully"
    /\ timers' = timers \cup {timer("showSection", null, "report")}
    /\ UNCHANGED <<clock, currentUser, storage, activityLog, storageWritable,
                   modals, task, pendingLogin, lastActivity, mainVisible,
                   loginVisible, currentSection, errorMessage, tableShown, alertsShown>>

\* handleMockRequest POST tables/sighting_reports, then the rest of the handler
ReportCreated ==
    /\ task = Idle
    /\ Len(pendingCreates) > 0
    /\ LET body == Head(pendingCreates)
           newReport == [f \in DOMAIN body \cup {"id"} |->
                           IF f = "id" THEN ToString(Len(reports) + 1) ELSE body[f]]
       IN reports' = Append(reports, newReport)
    /\ pendingCreates' = Tail(pendingCreates)
    /\ successMessage' = "Report submitted successfully"
    /\ timers' = timers \cup {timer("showSection", null, "report")}
    /\ UNCHANGED <<clock, currentUser, storage, activityLog, storageWritable,
                   modals, task, pendingLogin, lastActivity, mainVisible,
                   loginVisible, currentSection, errorMessage, tableShown, alertsShown>>

\* setTimeout(() => showSection('dashboard'), 2000)
ShowSectionTimer ==
    \E t \in timers :
        /\ task = Idle
        /\ t.cb = "showSection"
        /\ timers' = timers \ {t}
        /\ LET sec == showSection(currentUser, "dashboard") IN
           /\ mainVisible' = sec.main
           /\ loginVisible' = sec.login
           /\ currentSection' = sec.section
           /\ errorMessage' = sec.error
        /\ UNCHANGED <<clock, currentUser, storage, activityLog,
                       storageWritable, reports, modals, task, pendingLogin,
                       pendingCreates, lastActivity, successMessage,
                       tableShown, alertsShown>>

(***************************************************************************)
(* Navigation: showSection from a nav link and the permission checks of    *)
(* loadSectionData for the reports-management and the admin section.       *)
(***************************************************************************)
Sections == {"species", "reports-management", "admin"}

ManagementDenied ==
    "Access denied. Only Researchers, Administrators, and Government Officials can access reports management."

AdminDenied == "Access denied. Administrator privileges required."

NoLoad == "<none>"

\* faulty variant: the admin section is loaded without the administrator check
loadSectionData_unguarded(user, sectionName) ==
    IF sectionName = "reports-management" /\ ~canVerifyReports(user)
    THEN [section |-> showSection(user, "dashboard").section,
          error |-> ManagementDenied, load |-> NoLoad]
    ELSE [section |-> sectionName, error |-> Hidden,
          load |-> IF sectionName \in {"reports-management", "admin"}
                   THEN sectionName ELSE NoLoad]

\* loadSectionData(sectionName) up to its first await, called by showSection
\* with a logged-in user: the section it leaves as current, the error it
\* shows, and the gated loader it calls (loadReportsManagement or
\* loadAdminDashboard)
loadSectionData(user, sectionName) ==
    IF sectionName = "reports-management" /\ ~canVerifyReports(user)
    THEN [section |-> showSection(user, "dashboard").section,
          error |-> ManagementDenied, load |-> NoLoad]
    ELSE IF sectionName = "admin" /\ ~isAdminUser(user)
    THEN [section |-> showSection(user, "dashboard").section,
          error |-> AdminDenied, load |-> NoLoad]
    ELSE [section |-> sectionName, error |-> Hidden,
          load |-> IF sectionName \in {"reports-management", "admin"}
                   THEN sectionName ELSE NoLoad]

\* a nav link is clicked: showSection(section), then loadSectionData
ShowSection(sectionName) ==
    /\ task = Idle
    /\ startupDone
    /\ mainVisible
    /\ LET sec == showSection(currentUser, sectionName) IN
       IF sec.denied
       THEN /\ currentSection' = sec.section
            /\ mainVisible' = sec.main
            /\ loginVisible' = sec.login
            /\ show(sec.error, Hidden)
            /\ task' = task
       ELSE LET data == loadSectionData(currentUser, sectionName) IN
            /\ currentSection' = data.section
            /\ mainVisible' = sec.main
            /\ loginVisible' = sec.login
            /\ show(data.error, Hidden)
            /\ task' = IF data.load = NoLoad THEN task
                       ELSE [kind |-> "load", section |-> data.load]
    /\ UNCHANGED <<clock, currentUser, storage, activityLog, storageWritable,
                   reports, modals, pendingLogin, pendingCreates, timers,
                   lastActivity, tableShown, alertsShown>>

\* displayReportsTable: one row per report, in the order of the collection,
\* with the report's id and verification status
displayReportsTable(reps) ==
    [i \in 1..Len(reps) |->
        [id |-> reps[i].id, verification_status |-> reps[i].verification_status]]

\* loadSectionData after the await of the loader (loadReportsManagement fills
\* the table), then hideLoading
SectionLoaded ==
    /\ task.kind = "load"
    /\ task' = Idle
    /\ tableShown' = IF task.section = "reports-management"
                     THEN displayReportsTable(reports) ELSE tableShown
    /\ UNCHANGED <<clock, currentUser, storage, activityLog, storageWritable,
                   reports, modals, pendingLogin, pendingCreates, timers,
                   lastActivity, mainVisible, loginVisible, currentSection,
                   errorMessage, successMessage, alertsShown>>

(***************************************************************************)
(* Filtering of the reports-management table (filterReports).  Time 0 of   *)
(* the model is 2024-01-21T00:00:00Z and the browser's time zone is UTC, so *)
(* that the seeded report dates lie in the week before the page is loaded. *)
(***************************************************************************)
\* Every time of the model is a whole number of minutes; the dates of the
\* filter are counted in minutes (three months of milliseconds do not fit
\* the integers of the checker).
Minute == 60 * 1000
Hour == 60
Day == 24 * Hour

dateUTC(day, h, m) == (day - 21) * Day + h * Hour + m

\* the times the clock of the model takes
ClockValues == {k * HalfDay : k \in 0..(MaxTicks + 1)}

\* new Date(text).getTime() of a report_date, in minutes
parseDate(text) ==
    CASE text = "2024-01-15T10:30:00Z" -> dateUTC(15, 10, 30)
      [] text = "2024-01-20T14:15:00Z" -> dateUTC(20, 14, 15)
      [] text = "2024-01-17T09:45:00Z" -> dateUTC(17, 9, 45)
      [] OTHER -> (CHOOSE n \in ClockValues : toISOString(n) = text) \div Minute

\* String.prototype.toLowerCase, character by character
lowerChar(c) ==
    CASE c = "A" -> "a" [] c = "B" -> "b" [] c = "C" -> "c" [] c = "F" -> "f"
      [] c = "J" -> "j" [] c = "L" -> "l" [] c = "N" -> "n" [] c = "O" -> "o"
      [] c = "P" -> "p" [] c = "R" -> "r" [] c = "S" -> "s"
      [] OTHER -> c

lowerText(text) == [i \in 1..Len(text) |-> lowerChar(text[i])]

\* String.prototype.includes
includesText(text, part) ==
    \E i \in 0..(Len(text) - Len(part)) : SubSeq(text, i + 1, i + Len(part)) = part

\* the id of a report as a text (ids have one character in this model)
idText(report) == <<report.id>>

\* the start of a date range of the #date-filter select, in minutes; Undefined
\* for a value the switch does not know
startDate(dateRange, now) ==
    CASE dateRange = "today" -> now - (now % Day)
      [] dateRange = "week" -> now - 7 * Day
      [] dateRange = "month" -> dateUTC(1, 0, 0)
      [] dateRange = "quarter" -> dateUTC(1, 0, 0) - (31 + 30 + 31) * Day
      [] OTHER -> Undefined

\* Array.prototype.filter: the elements that satisfy keep, in their order
selectSeq(seq, keep(_)) ==
    LET F[i \in 0..Len(seq)] ==
            IF i = 0 THEN <<>>
            ELSE IF keep(seq[i]) THEN Append(F[i - 1], seq[i]) ELSE F[i - 1]
    IN F[Len(seq)]

\* faulty variant: the search compares the texts as they are written
filterReports_caseSensitive(reps, search, verificationStatus, threatLevel, dateRange, now) ==
    LET bySearch(r) ==
            \/ includesText(idText(r), search)
            \/ includesText(r.location_description, search)
            \/ includesText(r.reporter_name, search)
            \/ includesText(r.notes, search)
        f1 == IF search # <<>> THEN selectSeq(reps, bySearch) ELSE reps
        byStatus(r) == r.verification_status = verificationStatus
        f2 == IF verificationStatus # "" THEN selectSeq(f1, byStatus) ELSE f1
        byThreat(r) == r.threat_assessment = threatLevel
        f3 == IF threatLevel # "" THEN selectSeq(f2, byThreat) ELSE f2
        byDate(r) == parseDate(r.report_date) >= startDate(dateRange, now \div Minute)
    IN IF dateRange \in {"today", "week", "month", "quarter"}
       THEN selectSeq(f3, byDate) ELSE f3

\* filterReports: the reports it hands to displayReportsTable
filterReports(reps, search, verificationStatus, threatLevel, dateRange, now) ==
    LET searchTerm == lowerText(search)
        bySearch(r) ==
            \/ includesText(lowerText(idText(r)), searchTerm)
            \/ includesText(lowerText(r.location_description), searchTerm)
            \/ includesText(lowerText(r.reporter_name), searchTerm)
            \/ includesText(lowerText(r.notes), searchTerm)
        f1 == IF searchTerm # <<>> THEN selectSeq(reps, bySearch) ELSE reps
        byStatus(r) == r.verification_status = verificationStatus
        f2 == IF verificationStatus # "" THEN selectSeq(f1, byStatus) ELSE f1
        byThreat(r) == r.threat_assessment = threatLevel
        f3 == IF threatLevel # "" THEN selectSeq(f2, byThreat) ELSE f2
        byDate(r) == parseDate(r.report_date) >= startDate(dateRange, now \div Minute)
    IN IF dateRange \in {"today", "week", "month", "quarter"}
       THEN selectSeq(f3, byDate) ELSE f3

SearchInputs == {<<>>, <<"A", "N">>, <<"1">>}
StatusFilters == {"", "Pending"}
ThreatFilters == {"", "High Risk"}
DateFilters == {"", "today", "week", "quarter"}

\* a filter control of the reports-management section changes
FilterReports(search, verificationStatus, threatLevel, dateRange) ==
    /\ task = Idle
    /\ mainVisible
    /\ currentSection = "reports-management"
    /\ tableShown' = displayReportsTable(
           filterReports(reports, search, verificationStatus, threatLevel,
                         dateRange, clock))
    /\ show(Hidden, Hidden)
    /\ UNCHANGED <<clock, currentUser, storage, activityLog, storageWritable,
                   reports, modals, task, pendingLogin, pendingCreates, timers,
                   lastActivity, mainVisible, loginVisible, currentSection,
                   alertsShown>>

(***************************************************************************)
(* The priority alerts of the dashboard (loadPriorityAlerts).              *)
(***************************************************************************)
AlertCap == 5

\* getReports(params): the parameters are not used, every report is returned
getReports(reps, params) == reps

getReportsByThreatLevel(reps, threatLevel) ==
    getReports(reps, [search |-> threatLevel, limit |-> 100])

\* the entries loadPriorityAlerts puts into #priority-alerts: the two query
\* results one after the other, cut to the first five
loadPriorityAlerts(reps) ==
    LET allAlerts == getReportsByThreatLevel(reps, "High Risk")
                       \o getReportsByThreatLevel(reps, "Immediate Action Required")
        shown == IF Len(allAlerts) > AlertCap
                 THEN SubSeq(allAlerts, 1, AlertCap) ELSE allAlerts
    IN [i \in 1..Len(shown) |->
           [id |-> shown[i].id, threat_assessment |-> shown[i].threat_assessment]]

\* loadPriorityAlerts, the last step of loadDashboardData, for a logged-in
\* user whose current section is the dashboard
PriorityAlertsLoaded ==
    /\ task = Idle
    /\ startupDone
    /\ currentUser # null
    /\ mainVisible
    /\ currentSection = "dashboard"
    /\ alertsShown' = loadPriorityAlerts(reports)
    /\ UNCHANGED <<clock, currentUser, storage, activityLog, storageWritable,
                   reports, modals, task, pendingLogin, pendingCreates, timers,
                   lastActivity, mainVisible, loginVisible, currentSection,
                   errorMessage, successMessage, tableShown>>

FilterNext ==
    \E search \in SearchInputs, st \in StatusFilters :
       FilterReports(search, st, "", IF st = "" THEN "" ELSE "today")

(***************************************************************************)
(* The specifications.                                                     *)
(***************************************************************************)
StartupNext ==
    \/ CheckExistingLoginTimer
    \/ InitializeTimer
    \/ RestoreSessionTimer
    \/ ShowLoginScreenTimer

LoginNext ==
    \/ \E e \in LoginEmails, n \in LoginNames, t \in LoginTypes : LoginStart(e, n, t)
    \/ LoginComplete
    \/ Logout

SessionNext ==
    \/ Reload
    \/ Tick
    \/ SessionCheck
    \/ ActivityEvent

WorkflowNext ==
    \/ \E id \in ReportInputs : showVerificationModal(id)
    \/ ReportFetched
    \/ CloseVerificationModal
    \/ \E id \in {modals[i].reportId : i \in 1..Len(modals)} \cup {MissingId},
          st \in Statuses, n \in NotesValues : submitVerification(id, st, n)
    \/ VerificationSubmitted

ReportNext ==
    \/ \E th \in ThreatInputs : ReportSubmitted(th)
    \/ ReportCreated
    \/ ShowSectionTimer

NavigationNext ==
    \/ \E sec \in Sections : ShowSection(sec)
    \/ SectionLoaded

Next ==
    \/ StartupNext
    \/ LoginNext
    \/ SessionNext
    \/ WorkflowNext
    \/ ReportNext
    \/ NavigationNext
    \/ FilterNext
    \/ PriorityAlertsLoaded

Spec == Init /\ [][Next]_vars

\* the session store: page loads, logins, the clock and the timers
SpecSession ==
    Init /\ [][StartupNext \/ LoginNext \/ SessionNext]_vars

\* the verification workflow of one page load
SpecWorkflow ==
    Init /\ [][StartupNext \/ LoginNext \/ WorkflowNext]_vars

\* the report repository of one page load that starts without a session:
\* logins, report submissions and the verification workflow
InitRepository ==
    /\ Init
    /\ storage = EmptyStorage
    /\ storageWritable

RepositoryNext ==
    \/ StartupNext
    \/ LoginNext
    \/ \E id \in {"2", "3"} : showVerificationModal(id)
    \/ ReportFetched
    \/ CloseVerificationModal
    \/ \E id \in {modals[i].reportId : i \in 1..Len(modals)}, st \in TerminalStatuses :
          submitVerification(id, st, "confirmed in field")
    \/ VerificationSubmitted
    \/ ReportNext

SpecRepository == InitRepository /\ [][RepositoryNext]_vars

\* the report lists on the screen: navigation to the reports-management table
\* and verifications started from it
ListsNext ==
    \/ StartupNext
    \/ LoginNext
    \/ NavigationNext
    \/ \E id \in {"2", "3"} : showVerificationModal(id)
    \/ ReportFetched
    \/ CloseVerificationModal
    \/ \E id \in {modals[i].reportId : i \in 1..Len(modals)}, st \in TerminalStatuses :
          submitVerification(id, st, "confirmed in field")
    \/ VerificationSubmitted

SpecLists == InitRepository /\ [][ListsNext]_vars

\* the reports-management table under filtering, with reports being created
\* and the clock advancing
FilterSpecNext ==
    \/ StartupNext
    \/ \E e \in LoginEmails, n \in LoginNames, t \in LoginTypes : LoginStart(e, n, t)
    \/ LoginComplete
    \/ NavigationNext
    \/ ReportNext
    \/ Tick
    \/ FilterNext

SpecFilter == InitRepository /\ [][FilterSpecNext]_vars

\* navigation between the sections, from a page whose storage holds the
\* session of a citizen, of an official or of an administrator
NavigationUsers == {CitizenUser, OfficialUser, AdminUser}

InitNavigation ==
    /\ clock = 0
    /\ storageWritable \in BOOLEAN
    /\ \E u \in NavigationUsers :
          /\ storage = writeSession(EmptyStorage, u, 0)
          /\ activityLog = trackUserLogin(<<>>, u, 0)
    /\ currentUser = null
    /\ reports = initializeMockData
    /\ modals = <<>>
    /\ task = Idle
    /\ pendingLogin = NoLogin
    /\ pendingCreates = <<>>
    /\ timers = startupTimers
    /\ lastActivity = <<0>>
    /\ mainVisible = FALSE
    /\ loginVisible = FALSE
    /\ currentSection = "dashboard"
    /\ errorMessage = Hidden
    /\ successMessage = Hidden
    /\ tableShown = <<>>
    /\ alertsShown = <<>>

SpecNavigation ==
    InitNavigation /\ [][StartupNext \/ LoginNext \/ NavigationNext \/ ReportNext]_vars

\* logins and logouts of a page whose activity log already holds the entries
\* of LogCap - 2 to LogCap earlier logins
InitActivityLog ==
    /\ clock = 0
    /\ storageWritable \in BOOLEAN
    /\ storage = EmptyStorage
    /\ \E n \in (LogCap - 2)..LogCap : activityLog = loginHistory(CitizenUser, n)
    /\ currentUser = null
    /\ reports = initializeMockData
    /\ modals = <<>>
    /\ task = Idle
    /\ pendingLogin = NoLogin
    /\ pendingCreates = <<>>
    /\ timers = startupTimers
    /\ lastActivity = <<0>>
    /\ mainVisible = FALSE
    /\ loginVisible = FALSE
    /\ currentSection = "dashboard"
    /\ errorMessage = Hidden
    /\ successMessage = Hidden
    /\ tableShown = <<>>
    /\ alertsShown = <<>>

SpecActivityLog ==
    InitActivityLog /\ [][StartupNext \/ LoginNext \/ SessionNext]_vars

\* page loads over a storage that holds any part of a session: the user key
\* (JSON or not), the expiry key (a number or not), both or neither
UserTexts == {JSONstringify(CitizenUser), NotJSON}
ExpiryTexts == {toString(SessionDuration), NotNumeric}

PartialStorages ==
    {EmptyStorage}
    \cup {setItem(EmptyStorage, "ipsms_user", u) : u \in UserTexts}
    \cup {setItem(EmptyStorage, "ipsms_session_expiry", e) : e \in ExpiryTexts}
    \cup {setItem(setItem(EmptyStorage, "ipsms_user", u), "ipsms_session_expiry", e) :
             u \in UserTexts, e \in ExpiryTexts}

InitRestore ==
    /\ clock = 0
    /\ storageWritable \in BOOLEAN
    /\ storage \in PartialStorages
    /\ activityLog = <<>>
    /\ currentUser = null
    /\ reports = initializeMockData
    /\ modals = <<>>
    /\ task = Idle
    /\ pendingLogin = NoLogin
    /\ pendingCreates = <<>>
    /\ timers = startupTimers
    /\ lastActivity = <<0>>
    /\ mainVisible = FALSE
    /\ loginVisible = FALSE
    /\ currentSection = "dashboard"
    /\ errorMessage = Hidden
    /\ successMessage = Hidden
    /\ tableShown = <<>>
    /\ alertsShown = <<>>

SpecRestore ==
    InitRestore /\ [][StartupNext \/ LoginNext \/ SessionNext]_vars



(***************************************************************************)
(* Properties.  The steps of the handlers the properties speak about.      *)
(***************************************************************************)
OpenStep == \E id \in ReportInputs : showVerificationModal(id)

SubmitStep ==
    \E id \in {modals[i].reportId : i \in 1..Len(modals)} \cup {MissingId},
       st \in Statuses, n \in NotesValues : submitVerification(id, st, n)

CheckStep == CheckExistingLoginTimer \/ InitializeTimer

VerifierRoles == {"Researcher", "Administrator", "Government Official"}

\* C1: for every user value, canVerifyReports(user) is true exactly when the
\* user is non-null and its user_type is Researcher, Administrator or
\* Government Official; it is false for null, for Citizen and for any other or
\* missing role.  Checked on every user value of UserValues and on the
\* currentUser of every reachable state, where showVerificationModal applies it.
C1_CanVerifyReports ==
    /\ \A u \in UserValues :
          canVerifyReports(u) <=> (u # null /\ u.user_type \in VerifierRoles)
    /\ canVerifyReports(currentUser)
          <=> (currentUser # null /\ currentUser.user_type \in VerifierRoles)
    /\ ~canVerifyReports(null)
    /\ ~canVerifyReports(CitizenUser)
    /\ ~canVerifyReports(UntypedUser)

\* a user without user_type has asked for a verification and was refused
C1_Witness ==
    /\ currentUser # null
    /\ currentUser.user_type = Undefined
    /\ errorMessage = PermissionDenied

\* C2: when currentUser is null or canVerifyReports(currentUser) is false, a
\* call of showVerificationModal does not move the workflow (a Closed workflow
\* stays Closed): no modal is created, no fetch is started, no report changes
\* and an error message is shown.
C2_DeniedOpenStaysClosed ==
    [][((currentUser = null \/ ~canVerifyReports(currentUser)) /\ OpenStep)
         => /\ wf' = wf
            /\ (wf = "Closed" => wf' = "Closed")
            /\ modals' = modals
            /\ task' = Idle
            /\ reports' = reports
            /\ errorMessage' \in {"Please log in to verify reports.", PermissionDenied}
            /\ successMessage' = Hidden]_vars

\* a Citizen has asked for a verification: refused, nothing opened
C2_Witness ==
    /\ currentUser = CitizenUser
    /\ errorMessage = PermissionDenied
    /\ wf = "Closed"
    /\ reports = initializeMockData

VerifierNames == {"A. Lee"}
StatusValues == {"Verified", "Needs Review", "Rejected"}

\* C3: for every existing report id and every status, verifier name and notes,
\* right after verifyReport(id, name, status, notes) getReportById(id) returns
\* a record with that status, verifier and notes; the write of a submit in
\* flight is already in the repository, and the fetch of a
\* showVerificationModal returns what the repository holds for that id.
C3_VerifyThenGet ==
    /\ \A id \in reportIds(reports), name \in VerifierNames,
          st \in StatusValues, n \in NotesValues :
          LET r == verifyReport(reports, id, name, st, n, clock)
              g == getReportById(r.reports, id)
          IN /\ r.ok
             /\ g.ok
             /\ g.data.verification_status = st
             /\ g.data.verified_by = name
             /\ g.data.verification_notes = n
    /\ (task.kind = "submit" /\ task.result.ok)
          => LET g == getReportById(reports, task.reportId)
             IN /\ g.ok
                /\ g.data.verification_status = task.args.status
                /\ g.data.verified_by = task.args.verifierName
                /\ g.data.verification_notes = task.args.notes
    /\ task.kind = "fetch" => task.result = getReportById(reports, task.reportId)

\* a later showVerificationModal has fetched a report that Test User rejected
C3_Witness ==
    /\ task.kind = "fetch"
    /\ task.result.ok
    /\ task.result.data.verified_by = "Test User"
    /\ task.result.data.verification_status = "Rejected"
    /\ task.result.data.verification_notes = "confirmed in field"

\* C4: verifyReport with an id that no report has fails with 'Report not
\* found' and leaves the collection as it was: same length, every report
\* identical.
C4_VerifyMissingId ==
    /\ \A id \in {MissingId, ""} \ reportIds(reports),
          name \in VerifierNames, st \in StatusValues, n \in NotesValues :
          LET r == verifyReport(reports, id, name, st, n, clock)
          IN /\ ~r.ok
             /\ r.error = "Report not found"
             /\ Len(r.reports) = Len(reports)
             /\ \A i \in 1..Len(reports) : r.reports[i] = reports[i]
    /\ (task.kind = "submit" /\ task.reportId \notin reportIds(reports))
          => /\ ~task.result.ok
             /\ task.result.error = "Report not found"

\* submitVerification has called verifyReport with an id that no report has
C4_Witness ==
    /\ task.kind = "submit"
    /\ task.reportId = MissingId
    /\ ~task.result.ok
    /\ reports = initializeMockData

\* C5: submitVerification with an empty decision or an empty verifier name
\* shows an error, keeps the modal open (ReviewOpen), does not call
\* verifyReport and changes no report.
C5_ValidationFailure ==
    [][\A id \in {modals[i].reportId : i \in 1..Len(modals)} \cup {MissingId},
          st \in Statuses, n \in NotesValues :
          (/\ Len(modals) > 0
           /\ st = "" \/ firstModal.verifier = ""
           /\ submitVerification(id, st, n))
            => /\ errorMessage' = "Please fill in all required fields."
               /\ successMessage' = Hidden
               /\ wf = "ReviewOpen"
               /\ wf' = "ReviewOpen"
               /\ modals' = modals
               /\ task' = Idle
               /\ reports' = reports]_vars

\* a submit without a decision was refused; the modal is still open
C5_Witness ==
    /\ errorMessage = "Please fill in all required fields."
    /\ wf = "ReviewOpen"
    /\ firstModal.verifier = "Test User"

WorkflowEdges ==
    {<<"Closed", "LoadingReport">>, <<"LoadingReport", "ReviewOpen">>,
     <<"LoadingReport", "Closed">>, <<"ReviewOpen", "Submitting">>,
     <<"Submitting", "Closed">>, <<"Submitting", "ReviewOpen">>,
     <<"ReviewOpen", "Closed">>}

\* C6: the verification workflow only moves along the edges of WorkflowEdges,
\* whatever open, submit, cancel, login and logout events occur.
C6_WorkflowEdges ==
    [][wf' # wf => <<wf, wf'>> \in WorkflowEdges]_vars

\* C7: when verifyReport fails during submitVerification the decision is
\* applied to no report and the workflow returns to ReviewOpen: the modal
\* stays open, an error message is shown and no success message is shown.
C7_WriteFailure ==
    [][/\ (task'.kind = "submit" /\ ~task'.result.ok /\ SubmitStep)
            => reports' = reports
       /\ (task.kind = "submit" /\ ~task.result.ok /\ VerificationSubmitted)
            => /\ wf' = "ReviewOpen"
               /\ modals' = modals
               /\ errorMessage' = "Failed to submit verification. Please try again."
               /\ successMessage' = Hidden
               /\ reports' = reports]_vars

\* a submit for an id that no report has has failed; the modal is still open
C7_Witness ==
    /\ errorMessage = "Failed to submit verification. Please try again."
    /\ successMessage = Hidden
    /\ wf = "ReviewOpen"
    /\ reports = initializeMockData

\* C8: closeVerificationModal from ReviewOpen returns the workflow to Closed
\* and changes neither the reports, the current user, the persisted session
\* nor the activity log.
C8_CancelClosesWorkflow ==
    [][(CloseVerificationModal /\ wf = "ReviewOpen")
         => /\ wf' = "Closed"
            /\ UNCHANGED <<reports, currentUser, storage, activityLog, tableShown>>]_vars

SavedUsers == StoredUsers \cup {TestUser, AdminUser}

sessionValid ==
    /\ hasItem(storage, "ipsms_user")
    /\ hasItem(storage, "ipsms_session_expiry")
    /\ less(clock, parseInt(storage["ipsms_session_expiry"]))

sessionExpired ==
    /\ hasItem(storage, "ipsms_user")
    /\ hasItem(storage, "ipsms_session_expiry")
    /\ atLeast(clock, parseInt(storage["ipsms_session_expiry"]))

\* C9: for every user u, when saveUserSession(u) returns true and
\* checkExistingLogin runs before the stored expiry, checkExistingLogin
\* returns true and sets currentUser to a value equal to u in every field.
\* Checked for every user of SavedUsers on every reachable storage, and on the
\* steps of the page: a login stores the user it logs in, and a start-up check
\* that finds an unexpired session restores the stored user.
C9_SessionRoundTrip ==
    /\ [](\A u \in SavedUsers, w \in BOOLEAN :
            LET s == saveUserSession(storage, activityLog, w, u, clock)
            IN s.ret =>
                 \A now \in {clock, clock + HalfDay, clock + SessionDuration - 1} :
                    LET c == checkExistingLogin(s.storage, s.log, w, null, now)
                    IN c.ret /\ c.user = u)
    /\ [][/\ (LoginComplete /\ storageWritable)
               => JSONparse(storage'["ipsms_user"]) = currentUser'
          /\ (CheckStep /\ sessionValid)
               => /\ currentUser' = JSONparse(storage["ipsms_user"])
                  /\ \E t \in timers' \ timers : t.cb = "restoreSession"]_vars

\* half a day after Test User logged in, the page was loaded again and
\* checkExistingLogin restored Test User
C9_Witness ==
    /\ hasItem(storage, "ipsms_login_time")
    /\ clock = parseInt(storage["ipsms_login_time"]) + HalfDay
    /\ currentUser = TestUser
    /\ \E t \in timers : t.cb = "restoreSession" /\ t.user = TestUser

\* C10: when checkExistingLogin runs at or after the stored expiry it returns
\* false, leaves currentUser as it was (null), and afterwards none of the keys
\* written by saveUserSession is in storage.
C10_ExpiredSessionLeavesNothing ==
    [][(CheckStep /\ sessionExpired)
         => /\ currentUser' = currentUser
            /\ \E t \in timers' \ timers : t.cb = "showLoginScreen"
            /\ DOMAIN storage' \cap SessionKeys = {}]_vars

sessionPersisted ==
    /\ hasItem(storage, "ipsms_user")
    /\ hasItem(storage, "ipsms_session_expiry")
    /\ hasItem(storage, "ipsms_login_time")

\* C11: in every reachable state in which a session is persisted, the stored
\* expiry equals the stored login time plus 24 hours, after saveUserSession
\* and after every refreshUserSession triggered by user activity.
C11_ExpiryIsLoginTimePlusDay ==
    sessionPersisted
      => parseInt(storage["ipsms_session_expiry"])
            = parseInt(storage["ipsms_login_time"]) + SessionDuration

\* The session store with its timers running: the setInterval check of
\* setupSessionRefresh fires while it is due, and the setTimeout callbacks of
\* the start-up sequence run unless every page load is cut short by a reload.
SpecSessionFair ==
    /\ SpecSession
    /\ WF_vars(SessionCheck)
    /\ SF_vars(CheckExistingLoginTimer)
    /\ SF_vars(InitializeTimer)
    /\ SF_vars(RestoreSessionTimer)
    /\ SF_vars(ShowLoginScreenTimer)

forcedOut ==
    /\ currentUser = null
    /\ ~hasItem(storage, "ipsms_user")
    /\ ~hasItem(storage, "ipsms_session_expiry")
    /\ ~mainVisible
    /\ loginVisible

\* a session has been saved at the current time
freshLogin ==
    /\ currentUser # null
    /\ hasItem(storage, "ipsms_login_time")
    /\ parseInt(storage["ipsms_login_time"]) = clock

\* under the fair scheduling of the timers, a due expiry check leads to the
\* forced logout or to a new login
expiryLeadsToLogout == sessionCheckDue ~> (forcedOut \/ freshLogin)

\* C12: if a user is logged in and the clock has reached the persisted expiry
\* time, the user is logged out at the latest by the next periodic check:
\* currentUser is null, the persisted session is cleared, main content is
\* hidden and the login screen is shown.  The clock does not advance while
\* the check is due, so the only steps after which a user is logged in and
\* the check is no longer due are those of a new login; every other way out
\* goes through the logout.
C12_ExpiryForcesLogout ==
    [][(sessionCheckDue /\ ~sessionCheckDue')
         => IF currentUser' # null
            THEN freshLogin'
            ELSE SessionCheck => forcedOut']_vars


\* C13: once a report's verification_status is Verified or Rejected, no step
\* of the workflow changes that report's verification_status.
C13_TerminalStatusKept ==
    [][\A i \in 1..Len(reports) :
          reports[i].verification_status \in TerminalStatuses
            => reports'[i].verification_status = reports[i].verification_status]_vars

VerificationFields ==
    {"verification_status", "verified_by", "verification_date", "verification_notes"}

\* report i of reps2 differs from report i of reps1 in verification fields only
onlyVerificationChanged(reps1, reps2, i) ==
    /\ DOMAIN reps2[i] = DOMAIN reps1[i]
    /\ \A f \in DOMAIN reps1[i] \ VerificationFields : reps2[i][f] = reps1[i][f]

\* C14: a successful verifyReport(id, ...) changes only verification_status,
\* verified_by, verification_date and verification_notes of the report with
\* that id, and no other step (report creation, fetch, login, logout) changes
\* any field of an existing report.
C14_OnlyVerifyWritesVerification ==
    /\ [](\A id \in reportIds(reports), name \in VerifierNames,
             st \in StatusValues, n \in NotesValues :
             LET r == verifyReport(reports, id, name, st, n, clock)
             IN /\ Len(r.reports) = Len(reports)
                /\ \A i \in 1..Len(reports) :
                      IF i = findReport(reports, id)
                      THEN onlyVerificationChanged(reports, r.reports, i)
                      ELSE r.reports[i] = reports[i])
    /\ [][reports' # reports
            => /\ Len(reports') >= Len(reports)
               /\ \A i \in 1..Len(reports) :
                     reports'[i] # reports[i]
                       => /\ task'.kind = "submit"
                          /\ task'.result.ok
                          /\ SubmitStep
                          /\ i = findReport(reports, task'.reportId)
                          /\ onlyVerificationChanged(reports, reports', i)]_vars

\* a report has been created and report 2 has been verified by Test User: the
\* other fields of report 2 and the other reports are as they were
C14_Witness ==
    /\ Len(reports) = Len(initializeMockData) + 1
    /\ reports[2].verified_by = "Test User"
    /\ reports[2].report_date = initializeMockData[2].report_date
    /\ reports[1] = initializeMockData[1]
    /\ reports[3] = initializeMockData[3]

\* C15: in every reachable state at most one verification modal is open
\* (one #verification-modal element in the document), whether the second
\* showVerificationModal is for the same report id or for another one.
C15_AtMostOneModal == Len(modals) <= 1

GatedSections == {"reports-management", "admin"}

\* the roles a section's data may be loaded for
mayLoad(user, sec) ==
    /\ user # null
    /\ user.user_type \in (IF sec = "admin" THEN {"Administrator"} ELSE VerifierRoles)

denial(sec) == IF sec = "admin" THEN AdminDenied ELSE ManagementDenied

\* C16: the reports-management data is loaded only for a user who may verify
\* reports and the admin activity view only for an Administrator; a request
\* for either section by any other logged-in user shows the access-denied
\* error of that section and leaves the dashboard as the current section.
C16_GatedSections ==
    /\ [](\A u \in UserValues \ {null}, sec \in GatedSections :
             LET data == loadSectionData(u, sec)
             IN IF mayLoad(u, sec)
                THEN data.load = sec /\ data.section = sec
                ELSE /\ data.load = NoLoad
                     /\ data.error = denial(sec)
                     /\ data.section = "dashboard")
    /\ [][(task'.kind = "load" /\ task' # task)
             => mayLoad(currentUser, task'.section)]_vars
    /\ [][\A sec \in GatedSections :
             (currentUser # null /\ ~mayLoad(currentUser, sec) /\ ShowSection(sec))
               => /\ errorMessage' = denial(sec)
                  /\ currentSection' = "dashboard"
                  /\ task' = Idle]_vars

\* an official, who may verify reports, has asked for the admin section
C16_Witness ==
    /\ currentUser # null
    /\ currentUser.user_type = "Government Official"
    /\ errorMessage = AdminDenied
    /\ currentSection = "dashboard"
    /\ task = Idle

\* C17: a clear of the session is recorded in the activity log: when a user
\* whose login is logged (an active entry of theirs exists) logs out, that
\* entry is afterwards inactive and carries the time of the logout.
C17_LogoutRecorded ==
    [][(currentUser # null /\ storageWritable /\ Logout)
         => \A i \in 1..Len(activityLog) :
               (sameUser(activityLog[i], currentUser) /\ activityLog[i].isActive)
                 => /\ ~activityLog'[i].isActive
                    /\ activityLog'[i].logoutTime = clock]_vars

\* C18: when localStorage cannot be written, saveUserSession returns false and
\* writes nothing, and handleLogin still completes the login: currentUser is
\* set, the main content is shown, the login screen is hidden and the
\* dashboard is the current section.  No session is left in the storage, and
\* a page load that finds no session restores nobody and schedules the login
\* screen.
C18_LoginWithoutStorage ==
    /\ [](\A u \in SavedUsers :
             LET saved == saveUserSession(storage, activityLog, FALSE, u, clock)
             IN ~saved.ret /\ saved.storage = storage /\ saved.log = activityLog)
    /\ [][(~storageWritable /\ LoginComplete)
            => /\ currentUser' = pendingLogin.user
               /\ currentUser' # null
               /\ mainVisible'
               /\ ~loginVisible'
               /\ currentSection' = "dashboard"
               /\ storage' = storage
               /\ ~hasItem(storage', "ipsms_user")
               /\ ~hasItem(storage', "ipsms_session_expiry")]_vars
    /\ [][(~hasItem(storage, "ipsms_user") /\ CheckStep)
            => /\ currentUser' = currentUser
               /\ storage' = storage
               /\ \E t \in timers' \ timers : t.cb = "showLoginScreen"]_vars

\* a login has completed in a page that cannot write localStorage
C18_Witness ==
    /\ ~storageWritable
    /\ currentUser = TestUser
    /\ mainVisible
    /\ ~loginVisible
    /\ successMessage = "Welcome"
    /\ ~hasItem(storage, "ipsms_user")

\* C19: from any state, clearUserSession leaves none of the storage keys that
\* saveUserSession writes, and a second clearUserSession right after the
\* first changes neither the storage nor the activity log.
C19_ClearRemovesSavedKeys ==
    LET once == clearUserSession(storage, activityLog, storageWritable,
                                 currentUser, clock)
        twice == clearUserSession(once.storage, once.log, storageWritable,
                                  currentUser, clock)
    IN /\ DOMAIN once.storage \cap SessionKeys = {}
       /\ twice.storage = once.storage
       /\ twice.log = once.log

\* the second half of C19 alone: clearUserSession is idempotent
clearIsIdempotent ==
    LET once == clearUserSession(storage, activityLog, storageWritable,
                                 currentUser, clock)
        twice == clearUserSession(once.storage, once.log, storageWritable,
                                  currentUser, clock)
    IN twice = once

sessionUnreadable ==
    \/ ~hasItem(storage, "ipsms_user")
    \/ ~hasItem(storage, "ipsms_session_expiry")
    \/ ~isJSON(storage["ipsms_user"])
    \/ parseInt(storage["ipsms_session_expiry"]) = NaN

\* C21: whenever the persisted session is missing or unparsable (only the
\* user key, only the expiry key, an expiry that is not a number, a user
\* value that is not JSON), checkExistingLogin returns false: it restores
\* nobody, schedules the login screen, and afterwards no session key is left
\* in the storage.
C21_UnreadableSessionCleared ==
    [][(sessionUnreadable /\ CheckStep)
         => /\ currentUser' = currentUser
            /\ \E t \in timers' \ timers : t.cb = "showLoginScreen"
            /\ DOMAIN storage' \cap SessionKeys = {}]_vars

\* the part of C21 that the code keeps: an unreadable session restores nobody
unreadableSessionRefused ==
    [][(sessionUnreadable /\ CheckStep)
         => /\ currentUser' = currentUser
            /\ \E t \in timers' \ timers : t.cb = "showLoginScreen"]_vars

\* the gap between two events of a user who is continuously active
ActivityGap == (2 * InactivityLimit) \div 3

\* C22: a logged-in user who keeps producing input events less than 30
\* minutes apart for 30 minutes has the persisted expiry extended to the time
\* of the activity plus 24 hours.  The events come at the current time and
\* one and two gaps of 20 minutes later; the last one is 40 minutes into the
\* activity.
C22_ContinuousActivityExtends ==
    (/\ currentUser # null
     /\ storageWritable
     /\ Len(lastActivity) > 0
     /\ hasItem(storage, "ipsms_session_expiry"))
      => LET e0 == onActivity(storage, lastActivity, storageWritable,
                              currentUser, clock)
             e1 == onActivity(e0.storage, e0.lastActivity, storageWritable,
                              currentUser, clock + ActivityGap)
             e2 == onActivity(e1.storage, e1.lastActivity, storageWritable,
                              currentUser, clock + 2 * ActivityGap)
         IN parseInt(e2.storage["ipsms_session_expiry"])
               = clock + 2 * ActivityGap + SessionDuration

\* C23: after a successful submitVerification the modal it was sent from is
\* closed, a success notification is shown, and the report list the user is
\* looking at shows the new verification status: when the current section is
\* reports-management and its table has been filled, the table's rows are
\* those of the collection as it is now.
C23_SubmitRefreshesLists ==
    [][(task.kind = "submit" /\ task.result.ok /\ VerificationSubmitted)
         => /\ Len(modals') < Len(modals)
            /\ successMessage' # Hidden
            /\ (currentSection' = "reports-management" /\ tableShown # <<>>)
                  => tableShown' = displayReportsTable(reports')]_vars

\* report r satisfies every active criterion of the filter
matchesFilter(r, search, st, th, range, now) ==
    /\ search # <<>> =>
          \E text \in {idText(r), r.location_description, r.reporter_name, r.notes} :
             includesText(lowerText(text), lowerText(search))
    /\ st # "" => r.verification_status = st
    /\ th # "" => r.threat_assessment = th
    /\ range # "" => parseDate(r.report_date) >= startDate(range, now \div Minute)

\* C24: filterReports displays exactly the reports that satisfy every active
\* criterion (the search text, compared without regard to case, is part of
\* the id, the location description, the reporter name or the notes; the
\* verification status and the threat level are equal to the chosen ones;
\* the report date is not before the start of the chosen range), in the
\* order of the collection; with no criterion it displays all reports.
C24_FilterShowsExactMatches ==
    /\ (\A search \in SearchInputs, st \in StatusFilters, th \in ThreatFilters,
             range \in DateFilters :
             LET keep(r) == matchesFilter(r, search, st, th, range, clock)
             IN filterReports(reports, search, st, th, range, clock)
                   = selectSeq(reports, keep))
    /\ filterReports(reports, <<>>, "", "", "", clock) = reports

\* the table shows the two reports whose reporter name contains the search
\* text "AN" in some case: the seeded report of Jane and the new one of JAN
C24_Witness ==
    /\ currentSection = "reports-management"
    /\ Len(reports) = 4
    /\ Len(tableShown) = 2
    /\ tableShown[1].id = "1"
    /\ tableShown[2].id = "4"

\* C25: report ids are pairwise distinct and never change: a report created
\* by a submission gets an id that no report has, starts with
\* verification_status Pending and without verifier fields, and no step
\* changes the id of a report that exists or removes a report.
C25_ReportIdsUniqueAndStable ==
    /\ [](\A i, j \in 1..Len(reports) : reports[i].id = reports[j].id => i = j)
    /\ [][/\ Len(reports') >= Len(reports)
          /\ \A i \in 1..Len(reports) : reports'[i].id = reports[i].id
          /\ \A i \in (Len(reports) + 1)..Len(reports') :
                /\ reports'[i].id \notin reportIds(reports)
                /\ reports'[i].verification_status = "Pending"
                /\ reports'[i].verified_by = Undefined
                /\ reports'[i].verification_date = Undefined
                /\ reports'[i].verification_notes = Undefined]_vars

\* a fourth report has been created after report 2 was verified
C25_Witness ==
    /\ Len(reports) = Len(initializeMockData) + 1
    /\ reports[4].id = "4"
    /\ reports[4].verification_status = "Pending"
    /\ reports[2].verified_by = "Test User"
    /\ pendingCreates = <<>>

\* the verification fields of the reports, by position
verificationFields(reps) ==
    [i \in 1..Len(reps) |->
        <<reps[i].verification_status, reps[i].verified_by,
          reps[i].verification_date, reps[i].verification_notes>>]

\* C26: verification fields are written only while a permitted verifier is
\* logged in: a step taken while nobody is logged in (after a logout or an
\* expiry check that left a verification modal open) or while the user may
\* not verify leaves the verification fields of every report unchanged.
C26_NoVerificationAfterLogout ==
    [][(currentUser = null \/ ~canVerifyReports(currentUser))
          => verificationFields(reports') = verificationFields(reports)]_vars

\* C27: the identity a login produces is the one that was entered: a login
\* with email e, name n and type t yields a user with that email, full name
\* and user type, so a person whose type is none of the three verifier
\* roles does not obtain the permission to verify.
C27_LoginYieldsEnteredIdentity ==
    [][\A e \in LoginEmails, n \in LoginNames, t \in LoginTypes :
          LoginStart(e, n, t) =>
              LET user == pendingLogin'.user
              IN /\ user.email = e
                 /\ user.full_name = n
                 /\ user.user_type = t
                 /\ t \notin VerifierRoles => ~canVerifyReports(user)]_vars

\* C28: an expired session is never revived: no activity event and no timer
\* turns a persisted session whose expiry time has been reached into a
\* valid one; only a new login, which saves a session at the current time,
\* makes the persisted session valid again.
C28_ExpiredSessionNotRevived ==
    [][(sessionExpired /\ sessionValid') => (LoginComplete /\ freshLogin')]_vars

\* C29: the start-up sequence runs at most once per page load.  Every run of
\* initializeApp calls setupSessionRefresh, which creates one lastActivity
\* closure and one periodic expiry timer, so there is never more than one of
\* them; and no step of the start-up hides the main content of a user who is
\* logged in and stays logged in.
C29_StartupRunsOnce ==
    /\ [](Len(lastActivity) <= 1)
    /\ [][(currentUser # null /\ mainVisible /\ currentUser' # null)
            => mainVisible']_vars

\* the dashboard of one page load that starts without a session: logins,
\* report submissions and the loading of the priority alerts
AlertsNext ==
    \/ StartupNext
    \/ LoginNext
    \/ ReportNext
    \/ PriorityAlertsLoaded

SpecAlerts == InitRepository /\ [][AlertsNext]_vars

AlertLevels == {"High Risk", "Immediate Action Required"}

\* C30: the priority-alerts list contains only reports whose threat
\* assessment is 'High Risk' or 'Immediate Action Required', each of them at
\* most once: getReportsByThreatLevel(level) returns exactly the reports
\* with that threat level, in the order of the collection.
C30_AlertsOnlyPriorityReports ==
    [][PriorityAlertsLoaded =>
          /\ \A i \in 1..Len(alertsShown') :
                alertsShown'[i].threat_assessment \in AlertLevels
          /\ \A i, j \in 1..Len(alertsShown') :
                alertsShown'[i].id = alertsShown'[j].id => i = j
          /\ \A level \in AlertLevels :
                LET keep(r) == r.threat_assessment = level
                IN getReportsByThreatLevel(reports, level)
                      = selectSeq(reports, keep)]_vars

====
